---- MODULE Spec2Model ----
(***************************************************************************)
(* A model of module_utils/configuration.py: BaseConfigurationResource     *)
(* (operation dispatch, parameter validation, the check-mode gate, the     *)
(* add / edit / delete / find-by-filter / general handlers, the two-level  *)
(* operation spec cache, the request dispatcher) and the generator         *)
(* iterate_over_pageable_resource.                                         *)
(*                                                                         *)
(* Python dicts are functions with a finite domain of strings.  An         *)
(* operation name is the sequence of its camel-case words, so that         *)
(* startswith / endswith look at the first / last word.  One action is one *)
(* call of the transport's send_request together with the code that runs   *)
(* until the next send_request (or the end of the call).                   *)
(***************************************************************************)
EXTENDS Integers, Sequences, FiniteSets, TLC

(* ------------------------------ bounds -------------------------------- *)
\* the list endpoint of the server holds at most MaxItems objects
MaxItems == 2
\* crud_operation calls made on one resource instance
MaxCalls == 2

(* ------------------------- program constants -------------------------- *)
DEFAULT_PAGE_SIZE == 10
DEFAULT_OFFSET == 0
UNPROCESSABLE_ENTITY_STATUS == 422
INVALID_UUID_ERROR_MESSAGE == "Validation failed due to an invalid UUID"
DUPLICATE_NAME_ERROR_MESSAGE == "Validation failed due to a duplicate name"

\* class _OperationNamePrefix
ADD == "add"
EDIT == "edit"
GET == "get"
DELETE == "delete"

\* HTTPMethod, as the comparisons of this file use it
POST == "post"
PUT == "put"
HTTP_GET == "get"
HTTP_DELETE == "delete"

(* ------------------------------ dicts --------------------------------- *)
EmptyDict == [k \in {} |-> 0]

\* dict.get(key, default)
DictGet(d, k, default) == IF k \in DOMAIN d THEN d[k] ELSE default

\* d[k] = v on a copy
DictSet(d, k, v) == [x \in (DOMAIN d) \cup {k} |-> IF x = k THEN v ELSE d[x]]

\* dict.setdefault(key, value): an entry already present is kept
SetDefault(d, k, v) == IF k \in DOMAIN d THEN d ELSE DictSet(d, k, v)

\* bool(d) of a dict or a list
Truthy(d) == DOMAIN d # {}

ObjectKeys == {"name", "a"}
\* the objects the server holds and answers with: two names
Objects == {[name |-> 1, a |-> 1], [name |-> 2, a |-> 1]}

\* None, and a key that a dict does not hold
None == [none |-> TRUE]
Absent == [absent |-> TRUE]

(* ----------------- the metadata collaborator (self._conn) -------------- *)
addObj == <<"add", "Obj">>
editObj == <<"edit", "Obj">>
deleteObj == <<"delete", "Obj">>
getObjList == <<"get", "Obj", "List">>
addOther == <<"add", "Other">>
upsertOther == <<"upsert", "Other">>
noSuchOp == <<"no", "Such", "Op">>

OpNames == {addObj, editObj, deleteObj, getObjList, addOther, upsertOther, noSuchOp}

OperationSpec(m, u, model) == [method |-> m, url |-> u, modelName |-> model]

\* the operations the server describes; the model "Other" has no list operation
ConnOperationSpecs ==
    [n \in OpNames \ {noSuchOp} |->
        CASE n = addObj -> OperationSpec(POST, "/obj", "Obj")
          [] n = editObj -> OperationSpec(PUT, "/obj/{objId}", "Obj")
          [] n = deleteObj -> OperationSpec(HTTP_DELETE, "/obj/{objId}", "Obj")
          [] n = getObjList -> OperationSpec(HTTP_GET, "/obj", "Obj")
          [] n = addOther -> OperationSpec(POST, "/other", "Other")
          [] n = upsertOther -> OperationSpec(POST, "/other/upsert", "Other")]

\* self._conn.get_operation_spec(operation_name)
ConnGetOperationSpec(operation_name) ==
    IF operation_name \in DOMAIN ConnOperationSpecs
    THEN ConnOperationSpecs[operation_name] ELSE None

\* self._conn.get_operation_specs_by_model_name(model_name)
ConnGetOperationSpecsByModelName(model_name) ==
    [n \in {x \in DOMAIN ConnOperationSpecs : ConnOperationSpecs[x].modelName = model_name}
        |-> ConnOperationSpecs[n]]

(* ------------------------------ state --------------------------------- *)
VARIABLES
    check_mode,                      \* self._check_mode
    config_changed,                  \* self.config_changed
    operation_spec_cache,            \* self._operation_spec_cache
    models_operations_specs_cache,   \* self._models_operations_specs_cache
    pc,                              \* where the running crud_operation call stands
    call,                            \* the running call: op_name, the params as given,
                                     \* the params dict as the code has changed it, handler,
                                     \* config_changed as it was when the call began
    validations,                     \* the validate_params runs of the call, with their reports
    requests,                        \* the send_request calls of the call, with their answers
    server_items,                    \* the objects the list endpoint holds during a lookup
    it,                              \* the frame of get_objects_by_filter and its generator
    outcome,                         \* how the last call ended
    ncalls                           \* crud_operation calls made so far

vars == <<check_mode, config_changed, operation_spec_cache, models_operations_specs_cache,
          pc, call, validations, requests, server_items, it, outcome, ncalls>>

(* --------------------------- the spec cache --------------------------- *)
\* lines 83-84 with the collaborator's answer to a miss given: the cache after the call
get_operation_spec_answered(cache, operation_name, answer) ==
    IF operation_name \notin DOMAIN cache
    THEN DictSet(cache, operation_name, answer)
    ELSE cache

\* get_operation_spec: the cache after the call (a miss stores the collaborator's
\* answer, None included); the value returned is the cache's entry
get_operation_spec(cache, operation_name) ==
    get_operation_spec_answered(cache, operation_name, ConnGetOperationSpec(operation_name))

RECURSIVE BackfillSpecs(_, _, _)
\* mutant: the batch is written over the entries the name-level cache holds
BackfillSpecs_Overwrites(cache, model_op_specs, names) ==
    [n \in (DOMAIN cache) \cup names |-> IF n \in names THEN model_op_specs[n] ELSE cache[n]]

\* for op_name, op_spec in iteritems(model_op_specs): cache.setdefault(op_name, op_spec)
BackfillSpecs(cache, model_op_specs, names) ==
    IF names = {} THEN cache
    ELSE LET n == CHOOSE x \in names : TRUE
         IN BackfillSpecs(SetDefault(cache, n, model_op_specs[n]), model_op_specs, names \ {n})

\* lines 88-92 with the collaborator's answer to a miss given:
\* <<name-level cache, model-level cache>> after the call
get_operation_specs_by_model_name_answered(cache, mcache, model_name, model_op_specs) ==
    IF model_name \notin DOMAIN mcache
    THEN <<BackfillSpecs(cache, model_op_specs, DOMAIN model_op_specs),
           DictSet(mcache, model_name, model_op_specs)>>
    ELSE <<cache, mcache>>

\* get_operation_specs_by_model_name: <<name-level cache, model-level cache>> after it
get_operation_specs_by_model_name(cache, mcache, model_name) ==
    get_operation_specs_by_model_name_answered(cache, mcache, model_name,
                                               ConnGetOperationSpecsByModelName(model_name))

(* ---------------------------- classification -------------------------- *)
startswith(operation_name, prefix) == operation_name[1] = prefix
endswith(operation_name, suffix) == operation_name[Len(operation_name)] = suffix

is_post_request(operation_spec) == operation_spec.method = POST
is_put_request(operation_spec) == operation_spec.method = PUT

\* The classifiers read the spec through get_operation_spec; where they are used the
\* name is already cached (crud_operation fetched it, a model fetch backfilled it).
is_add_operation(cache, operation_name) ==
    startswith(operation_name, ADD) /\ is_post_request(cache[operation_name])

is_edit_operation(cache, operation_name) ==
    startswith(operation_name, EDIT) /\ is_put_request(cache[operation_name])

is_delete_operation(cache, operation_name) ==
    startswith(operation_name, DELETE) /\ cache[operation_name].method = HTTP_DELETE

is_find_all_operation(cache, operation_name) ==
    LET is_get_list_operation == startswith(operation_name, GET) /\ endswith(operation_name, "List")
        is_get_method == cache[operation_name].method = HTTP_GET
    IN is_get_list_operation /\ is_get_method

is_find_by_filter_operation(cache, operation_name, params) ==
    /\ is_find_all_operation(cache, operation_name)
    /\ "filters" \in DOMAIN params
    /\ Truthy(params["filters"])

\* the if / elif chain of crud_operation
Handler(cache, op_name, params) ==
    IF is_add_operation(cache, op_name) THEN "add_object"
    ELSE IF is_edit_operation(cache, op_name) THEN "edit_object"
    ELSE IF is_delete_operation(cache, op_name) THEN "delete_object"
    ELSE IF is_find_by_filter_operation(cache, op_name, params) THEN "get_objects_by_filter"
    ELSE "send_general_request"

(* ------------------------------ parameters ---------------------------- *)
_get_user_params(params) ==
    [data |-> DictGet(params, "data", EmptyDict),
     query_params |-> DictGet(params, "query_params", EmptyDict),
     path_params |-> DictGet(params, "path_params", EmptyDict)]

_get_request_params_from_spec(operation_spec) ==
    [url |-> operation_spec.url, method |-> operation_spec.method]

(* ------------------------------ validation ---------------------------- *)
\* what a validator of the collaborator does with one category: it returns
\* (True, _), returns (False, report) or raises
ValidatorAnswers == {"valid", "invalid", "raised"}
Categories == {"query_params", "path_params", "data"}
AnswerSets == [Categories -> ValidatorAnswers]

\* key = 'Invalid %s provided' % field_name
ReportKey(field_name) ==
    CASE field_name = "query_params" -> "Invalid query_params provided"
      [] field_name = "path_params" -> "Invalid path_params provided"
      [] field_name = "data" -> "Invalid data provided"

\* the inner validate(): a returned failure and a raised exception both end as the
\* category's entry of the report; the detail is the collaborator's text
validate(rep, answers, field_name) ==
    IF answers[field_name] = "valid" THEN rep
    ELSE DictSet(rep, ReportKey(field_name), "detail")

\* mutant: the first category that fails ends the validation
validate_params_StopsAtFirst(op_spec, answers) ==
    IF answers["query_params"] # "valid" THEN validate(EmptyDict, answers, "query_params")
    ELSE IF answers["path_params"] # "valid" THEN validate(EmptyDict, answers, "path_params")
    ELSE IF is_post_request(op_spec) \/ is_put_request(op_spec)
    THEN validate(EmptyDict, answers, "data")
    ELSE EmptyDict

\* validate_params: the report; a report that is not empty raises ValidationError
validate_params(op_spec, answers) ==
    LET r1 == validate(EmptyDict, answers, "query_params")
        r2 == validate(r1, answers, "path_params")
    IN IF is_post_request(op_spec) \/ is_put_request(op_spec)
       THEN validate(r2, answers, "data")
       ELSE r2

\* the validator methods validate_params calls (lines 282-285), in order, each with what
\* the collaborator did; validate() catches what a method raises, so the next line runs
ValidatorCalls(op_spec, answers) ==
    LET Called(field_name) == [field_name |-> field_name, answer |-> answers[field_name]]
    IN <<Called("query_params"), Called("path_params")>>
       \o (IF is_post_request(op_spec) \/ is_put_request(op_spec)
           THEN <<Called("data")>> ELSE <<>>)

\* mutant: the gate never stops a handler
stop_if_check_mode_Never(cm) == FALSE

\* stop_if_check_mode: TRUE when it raises CheckModeException
stop_if_check_mode(cm) == cm

(* ------------------------------ transport ----------------------------- *)
\* ResponseParams: the envelope send_request of the collaborator returns
SuccessEnvelope(body) == [success |-> TRUE, status_code |-> 200, response |-> body]

StatusCodes == {UNPROCESSABLE_ENTITY_STATUS, 500}
\* the text of an error body, sentence by sentence
ErrorTexts == {<<"Request failed", DUPLICATE_NAME_ERROR_MESSAGE>>, <<INVALID_UUID_ERROR_MESSAGE>>}
FailureEnvelopes ==
    {[success |-> FALSE, status_code |-> c, response |-> [message |-> m]] :
        c \in StatusCodes, m \in ErrorTexts}

\* `sentence in str(err)`; str(err) is the text of the response the error carries
StrContains(response, sentence) ==
    \E i \in DOMAIN response.message : response.message[i] = sentence

\* raise FtdServerError(resp[RESPONSE], resp[STATUS_CODE])
FtdServerError(resp) ==
    [kind |-> "FtdServerError", response |-> resp.response, code |-> resp.status_code]

\* mutant: the status code is not looked at
is_duplicate_name_error_AnyStatus(err) ==
    StrContains(err.response, DUPLICATE_NAME_ERROR_MESSAGE)

\* mutant: every refusal with the status 422 counts as a duplicate name
is_duplicate_name_error_AnyText(err) == err.code = UNPROCESSABLE_ENTITY_STATUS

is_duplicate_name_error(err) ==
    err.code = UNPROCESSABLE_ENTITY_STATUS /\ StrContains(err.response, DUPLICATE_NAME_ERROR_MESSAGE)

\* mutant: the text is not looked at
is_invalid_uuid_error_AnyText(err) == err.code = UNPROCESSABLE_ENTITY_STATUS

is_invalid_uuid_error(err) ==
    err.code = UNPROCESSABLE_ENTITY_STATUS /\ StrContains(err.response, INVALID_UUID_ERROR_MESSAGE)

\* _send_request, the call of self._conn.send_request: the request as the transport sees it
Request(url_path, http_method, body_params, path_params, query_params, resp) ==
    [url_path |-> url_path, http_method |-> http_method, body_params |-> body_params,
     path_params |-> path_params, query_params |-> query_params, response |-> resp]

\* mutant: the flag is set before the envelope is looked at
_send_request_BeforeRaise(http_method, resp, changed) ==
    IF http_method # HTTP_GET THEN TRUE ELSE changed

\* mutant: every successful request sets the flag, a GET too
_send_request_AnyMethod(http_method, resp, changed) ==
    IF resp.success THEN TRUE ELSE changed

\* _send_request, after raise_for_failure: config_changed after the request
_send_request(http_method, resp, changed) ==
    IF resp.success /\ http_method # HTTP_GET THEN TRUE ELSE changed

(* ------------------------------ pagination ---------------------------- *)
\* a query parameter holds an int or the decimal text of one
IntVal(n) == [int |-> n]
StrVal(digits) == [str |-> digits]

RECURSIVE ParseDigits(_)
ParseDigits(digits) ==
    IF digits = <<>> THEN 0
    ELSE 10 * ParseDigits(SubSeq(digits, 1, Len(digits) - 1)) + digits[Len(digits)]

\* int(x)
int(x) == IF "int" \in DOMAIN x THEN x.int ELSE ParseDigits(x.str)

\* iterate_over_pageable_resource, lines 328-330: the query parameters of the first fetch
FirstPageParams(query_params) ==
    SetDefault(SetDefault(query_params, "limit", IntVal(DEFAULT_PAGE_SIZE)),
               "offset", IntVal(DEFAULT_OFFSET))

\* mutant: the offset advances by the default page size, not by the limit in use
NextPageParams_DefaultStep(query_params) ==
    DictSet(query_params, "offset", IntVal(int(query_params["offset"]) + DEFAULT_PAGE_SIZE))

\* mutant: the offset of the next fetch is the offset of the last one
NextPageParams_SameOffset(query_params) ==
    DictSet(query_params, "offset", IntVal(int(query_params["offset"])))

\* lines 337-338: the query parameters of the next fetch
NextPageParams(query_params) ==
    DictSet(query_params, "offset", IntVal(int(query_params["offset"]) + int(query_params["limit"])))

\* the list endpoint: the items it holds at the positions [offset, offset + limit),
\* the first item at position 0 (none when the limit is 0 or less)
ServerPage(items, query_params) ==
    LET off == int(query_params["offset"])
        lim == int(query_params["limit"])
        first == IF off < 0 THEN 0 ELSE off
        last == IF off + lim < Len(items) THEN off + lim ELSE Len(items)
    IN SubSeq(items, first + 1, last)

ServerLists == UNION {[1..n -> Objects] : n \in 0..MaxItems}

(* -------------------------- find by filter ---------------------------- *)
\* transform_filters_to_query_param: the 'key:value' pairs the string joins
transform_filters_to_query_param(filter_params) ==
    {<<k, filter_params[k]>> : k \in DOMAIN filter_params}

\* mutant: one filter key found in the object with its value is enough
match_filters_AnyKey(filter_params, obj) ==
    \E k \in DOMAIN filter_params : k \in DOMAIN obj /\ obj[k] = filter_params[k]

\* match_filters: viewitems(filter_params) <= viewitems(obj)
match_filters(filter_params, obj) ==
    \A k \in DOMAIN filter_params : k \in DOMAIN obj /\ obj[k] = filter_params[k]

RECURSIVE FilterSeq(_, _)
\* [i for i in items if match_filters(filters, i)]
FilterSeq(filters, items) ==
    IF items = <<>> THEN <<>>
    ELSE (IF match_filters(filters, Head(items)) THEN <<Head(items)>> ELSE <<>>)
         \o FilterSeq(filters, Tail(items))

\* mutant: the consumer never has its item, it pulls the generator to its end
FirstMatch_Never(filters, items) == 0

\* the position of the first item of the page that matches, 0 when none does
FirstMatch(filters, items) ==
    IF \E i \in DOMAIN items : match_filters(filters, items[i])
    THEN CHOOSE i \in DOMAIN items :
            /\ match_filters(filters, items[i])
            /\ \A j \in 1..(i - 1) : ~match_filters(filters, items[j])
    ELSE 0

NoFrame == [active |-> FALSE]

\* get_objects_by_filter, lines 105-116: the frame when the generator is created
\* (caller: who called get_objects_by_filter; e: the error add_object caught)
GetObjectsByFilterFrame(operation_name, params, get_one_item, op_spec, caller, e) ==
    LET user == _get_user_params(params)
        rp == _get_request_params_from_spec(op_spec)
        filters == IF "filters" \in DOMAIN params THEN params["filters"] ELSE EmptyDict
        query_params == IF Truthy(filters)
                        THEN DictSet(user.query_params, "filters",
                                     transform_filters_to_query_param(filters))
                        ELSE user.query_params
    IN [active |-> TRUE, operation_name |-> operation_name, url |-> rp.url, method |-> rp.method,
        path_params |-> user.path_params, filters |-> filters, get_one_item |-> get_one_item,
        query_params |-> FirstPageParams(query_params), yielded |-> <<>>, found |-> <<>>,
        caller |-> caller, e |-> e]

\* line 111 writes into the caller's own query_params dict when params holds one
ParamsAfterFilters(params) ==
    IF "filters" \in DOMAIN params /\ Truthy(params["filters"]) /\ "query_params" \in DOMAIN params
    THEN DictSet(params, "query_params",
                 DictSet(params["query_params"], "filters",
                         transform_filters_to_query_param(params["filters"])))
    ELSE params

(* --------------------------- equal_objects ---------------------------- *)
\* module_utils.common.equal_objects: deep equality on the compared keys
ComparedKeys == ObjectKeys
Compared(d) == [k \in (DOMAIN d) \cap ComparedKeys |-> d[k]]
equal_objects(d1, d2) == Compared(d1) = Compared(d2)

(* ------------------------------- inputs ------------------------------- *)
DataChoices == {Absent, [name |-> 1, a |-> 1], [name |-> 1, a |-> 2], [a |-> 1]}
FilterChoices == {Absent, EmptyDict, [name |-> 2], [name |-> 2, a |-> 1]}
QueryChoices == {Absent, [limit |-> IntVal(1)], [limit |-> StrVal(<<2>>), offset |-> IntVal(1)]}
PathChoices == {[objId |-> 1]}

\* the params dict of a call: a category that is Absent is no key of it
MakeParams(d, q, p, f) ==
    LET all == [data |-> d, query_params |-> q, path_params |-> p, filters |-> f]
    IN [k \in {x \in DOMAIN all : all[x] # Absent} |-> all[k]]

ParamsChoices ==
    {MakeParams(d, q, p, f) : d \in DataChoices, q \in QueryChoices,
                              p \in PathChoices, f \in FilterChoices}

\* what the transport may answer with a success, by the request
ObjectBodies == Objects \cup {EmptyDict}

(* ------------------------------ outcomes ------------------------------ *)
Success(value) == [kind |-> "Success", value |-> value]
ValidationError(rep) == [kind |-> "ValidationError", report |-> rep]
CheckModeException == [kind |-> "CheckModeException"]
\* mutant: the error does not carry the operation name
FtdInvalidOperationNameError_NoName(operation_name) ==
    [kind |-> "FtdInvalidOperationNameError", operation_name |-> <<>>]

FtdInvalidOperationNameError(operation_name) ==
    [kind |-> "FtdInvalidOperationNameError", operation_name |-> operation_name]
FtdConfigurationError(msg, obj) == [kind |-> "FtdConfigurationError", msg |-> msg, obj |-> obj]
KeyError(key) == [kind |-> "KeyError", key |-> key]

\* the call ends: it returns or an exception leaves crud_operation
Return(o) == pc' = "done" /\ outcome' = o

NoCall ==
    [op_name |-> <<>>, given |-> EmptyDict, params |-> EmptyDict, handler |-> "none",
     changed_before |-> FALSE]

\* one run of validate_params
Validation(operation_name, rep) == [operation_name |-> operation_name, report |-> rep]

(* -------------------------------- Init -------------------------------- *)
\* __init__(conn, check_mode)
Init ==
    /\ check_mode \in BOOLEAN
    /\ config_changed = FALSE
    /\ operation_spec_cache = EmptyDict
    /\ models_operations_specs_cache = EmptyDict
    /\ pc = "idle"
    /\ call = NoCall
    /\ validations = <<>>
    /\ requests = <<>>
    /\ server_items = <<>>
    /\ it = NoFrame
    /\ outcome = [kind |-> "none"]
    /\ ncalls = 0

(* ------------------------------- actions ------------------------------ *)
\* mutant: the handler goes on whatever the report holds
Passes_IgnoresReport(rep, cm) == ~stop_if_check_mode(cm)

\* mutant: the handler goes on in check mode too
Passes_NoGate(rep, cm) == ~Truthy(rep)

\* the first lines of every handler: validate_params, then stop_if_check_mode.
\* TRUE when the handler goes on to its request.
Passes(rep, cm) == ~Truthy(rep) /\ ~stop_if_check_mode(cm)

\* mutant: the check-mode gate stands before the validation
EntryError_GateFirst(rep, cm) == IF cm THEN CheckModeException ELSE ValidationError(rep)

\* the exception those lines raise when the handler does not go on
EntryError(rep, cm) == IF Truthy(rep) THEN ValidationError(rep) ELSE CheckModeException

\* get_objects_by_filter up to the creation of the generator (lines 102-116);
\* c is the record of the call, e the error add_object caught (None otherwise)
get_objects_by_filter(operation_name, c, get_one_item, cache, caller, e, answers) ==
    LET op_spec == cache[operation_name]
        rep == validate_params(op_spec, answers)
    IN /\ validations' = Append(validations, Validation(operation_name, rep))
       /\ IF Passes(rep, check_mode)
          THEN /\ pc' = "iterate"
               /\ it' = GetObjectsByFilterFrame(operation_name, c.params, get_one_item,
                                                op_spec, caller, e)
               /\ call' = [c EXCEPT !.params = ParamsAfterFilters(c.params)]
               /\ \E items \in ServerLists : server_items' = items
               /\ outcome' = [kind |-> "none"]
          ELSE /\ Return(EntryError(rep, check_mode))
               /\ call' = c
               /\ it' = NoFrame
               /\ server_items' = <<>>

\* crud_operation(op_name, params) up to the first request of the handler
crud_operation(op_name, params) ==
    /\ pc = "idle"
    /\ validations = <<>>
    /\ ncalls < MaxCalls
    /\ ncalls' = ncalls + 1
    /\ requests' = <<>>
    /\ UNCHANGED <<check_mode, config_changed, models_operations_specs_cache>>
    /\ LET cache == get_operation_spec(operation_spec_cache, op_name)
           op_spec == cache[op_name]
       IN /\ operation_spec_cache' = cache
          /\ IF op_spec = None
             THEN /\ call' = [op_name |-> op_name, given |-> params, params |-> params,
                               handler |-> "none", changed_before |-> config_changed]
                  /\ validations' = <<>>
                  /\ it' = NoFrame
                  /\ server_items' = <<>>
                  /\ Return(FtdInvalidOperationNameError(op_name))
             ELSE LET handler == Handler(cache, op_name, params)
                      c == [op_name |-> op_name, given |-> params, params |-> params,
                            handler |-> handler, changed_before |-> config_changed]
                  IN \E answers \in AnswerSets :
                     IF handler = "get_objects_by_filter"
                     THEN get_objects_by_filter(op_name, c, FALSE, cache, "crud_operation",
                                                None, answers)
                     ELSE LET rep == validate_params(op_spec, answers)
                          IN /\ call' = c
                             /\ validations' = <<Validation(op_name, rep)>>
                             /\ it' = NoFrame
                             /\ server_items' = <<>>
                             /\ IF Passes(rep, check_mode)
                                THEN pc' = handler /\ outcome' = [kind |-> "none"]
                                ELSE Return(EntryError(rep, check_mode))

\* _get_find_all_operation_name: <<find operation or None, name cache, model cache>>
_get_find_all_operation_name(cache, mcache, model_name) ==
    LET caches == get_operation_specs_by_model_name(cache, mcache, model_name)
        operations == caches[2][model_name]
        found == {op_name \in DOMAIN operations : is_find_all_operation(caches[1], op_name)}
    IN <<IF Truthy(operations) /\ found # {} THEN CHOOSE op_name \in found : TRUE ELSE None,
         caches[1], caches[2]>>

\* _check_if_the_same_object up to the lookup (lines 143-150)
_check_if_the_same_object(op_spec, e, answers) ==
    LET fa == _get_find_all_operation_name(operation_spec_cache, models_operations_specs_cache,
                                           op_spec.modelName)
        find_operation == fa[1]
        params == call.params
    IN /\ operation_spec_cache' = fa[2]
       /\ models_operations_specs_cache' = fa[3]
       /\ IF find_operation = None
          THEN /\ Return(e)
               /\ UNCHANGED <<call, validations, it, server_items>>
          ELSE IF "data" \notin DOMAIN params
          THEN /\ Return(KeyError("data"))
               /\ UNCHANGED <<call, validations, it, server_items>>
          ELSE IF "filters" \notin DOMAIN params /\ "name" \notin DOMAIN params["data"]
          THEN /\ Return(KeyError("name"))
               /\ UNCHANGED <<call, validations, it, server_items>>
          ELSE LET withFilters == IF "filters" \notin DOMAIN params
                                  THEN DictSet(params, "filters", [name |-> params["data"]["name"]])
                                  ELSE params
               IN get_objects_by_filter(find_operation, [call EXCEPT !.params = withFilters],
                                        TRUE, fa[2], "_check_if_the_same_object", e, answers)

\* add_object from its request on (lines 126-140)
add_object ==
    /\ pc = "add_object"
    /\ LET user == _get_user_params(call.params)
           op_spec == operation_spec_cache[call.op_name]
           rp == _get_request_params_from_spec(op_spec)
       IN \E resp \in {SuccessEnvelope(b) : b \in Objects} \cup FailureEnvelopes :
            /\ requests' = Append(requests, Request(rp.url, rp.method, user.data,
                                                    user.path_params, user.query_params, resp))
            /\ config_changed' = _send_request(rp.method, resp, config_changed)
            /\ IF resp.success
               THEN /\ Return(Success(resp.response))
                    /\ UNCHANGED <<operation_spec_cache, models_operations_specs_cache,
                                   call, validations, it, server_items>>
               ELSE IF is_duplicate_name_error(FtdServerError(resp))
               THEN \E answers \in AnswerSets :
                        _check_if_the_same_object(op_spec, FtdServerError(resp), answers)
               ELSE /\ Return(FtdServerError(resp))
                    /\ UNCHANGED <<operation_spec_cache, models_operations_specs_cache,
                                   call, validations, it, server_items>>
    /\ UNCHANGED <<check_mode, ncalls>>

\* mutant: the original error is raised whatever the lookup found
AfterLookup_AlwaysRethrows(existing_obj, data, e) == e

\* mutant: an object found is returned without comparing it
AfterLookup_NoComparison(existing_obj, data, e) ==
    IF existing_obj # None THEN Success(existing_obj) ELSE e

\* _check_if_the_same_object after the lookup (lines 152-161)
AfterLookup(existing_obj, data, e) ==
    IF existing_obj # None
    THEN IF equal_objects(existing_obj, data)
         THEN Success(existing_obj)
         ELSE FtdConfigurationError("Cannot add new object. An object with the same name but different parameters already exists.",
                                    existing_obj)
    ELSE e

\* what the caller of get_objects_by_filter does with its result
AfterGetObjectsByFilter(frame, result, params) ==
    IF frame.caller = "_check_if_the_same_object"
    THEN AfterLookup(result, params["data"], frame.e)
    ELSE Success(result)

\* one fetch of the generator (resource_func(query_params=query_params), lines 332 and
\* 339) and what the consumer (lines 117-120) does with the items of that page
iterate_over_pageable_resource ==
    /\ pc = "iterate"
    /\ \E resp \in {SuccessEnvelope([items |-> ServerPage(server_items, it.query_params)])}
                   \cup FailureEnvelopes :
         /\ requests' = Append(requests, Request(it.url, it.method, None, it.path_params,
                                                 it.query_params, resp))
         /\ config_changed' = _send_request(it.method, resp, config_changed)
         /\ IF ~resp.success
            THEN /\ Return(FtdServerError(resp))
                 /\ UNCHANGED it
            ELSE LET items == resp.response.items
                     m == FirstMatch(it.filters, items)
                 IN IF ~Truthy(items)
                    THEN \* the generator is exhausted
                         /\ Return(AfterGetObjectsByFilter(it,
                                       IF it.get_one_item THEN None ELSE it.found, call.params))
                         /\ UNCHANGED it
                    ELSE IF it.get_one_item /\ m # 0
                    THEN \* next() has its item: the generator is not resumed
                         /\ Return(AfterGetObjectsByFilter(it, items[m], call.params))
                         /\ it' = [it EXCEPT !.yielded = @ \o SubSeq(items, 1, m)]
                    ELSE /\ it' = [it EXCEPT !.yielded = @ \o items,
                                             !.found = IF it.get_one_item THEN @
                                                       ELSE @ \o FilterSeq(it.filters, items),
                                             !.query_params = NextPageParams(@)]
                         /\ UNCHANGED <<pc, outcome>>
    /\ UNCHANGED <<check_mode, operation_spec_cache, models_operations_specs_cache,
                   call, validations, server_items, ncalls>>

\* delete_object from its request on (lines 173-186)
delete_object ==
    /\ pc = "delete_object"
    /\ LET user == _get_user_params(call.params)
           rp == _get_request_params_from_spec(operation_spec_cache[call.op_name])
       IN \E resp \in {SuccessEnvelope(EmptyDict)} \cup FailureEnvelopes :
            /\ requests' = Append(requests, Request(rp.url, rp.method, None,
                                                    user.path_params, None, resp))
            /\ config_changed' = _send_request(rp.method, resp, config_changed)
            /\ IF resp.success
               THEN Return(Success(resp.response))
               ELSE IF is_invalid_uuid_error(FtdServerError(resp))
               THEN Return(Success([status |-> "Referenced object does not exist"]))
               ELSE Return(FtdServerError(resp))
    /\ UNCHANGED <<check_mode, operation_spec_cache, models_operations_specs_cache,
                   call, validations, server_items, it, ncalls>>

\* mutant: an existing object is always written
EditDecision_AlwaysWrites(existing_object, data) ==
    IF ~Truthy(existing_object) THEN "missing" ELSE "write"

\* mutant: an empty result is not told from an object
EditDecision_NoMissingCheck(existing_object, data) ==
    IF equal_objects(existing_object, data) THEN "same" ELSE "write"

\* edit_object, lines 198-204: what follows the GET
EditDecision(existing_object, data) ==
    IF ~Truthy(existing_object) THEN "missing"
    ELSE IF equal_objects(existing_object, data) THEN "same"
    ELSE "write"

\* edit_object, the GET at the same path (lines 192-201)
edit_object ==
    /\ pc = "edit_object"
    /\ LET user == _get_user_params(call.params)
           rp == _get_request_params_from_spec(operation_spec_cache[call.op_name])
       IN \E resp \in {SuccessEnvelope(b) : b \in ObjectBodies} \cup FailureEnvelopes :
            /\ requests' = Append(requests, Request(rp.url, HTTP_GET, None,
                                                    user.path_params, None, resp))
            /\ config_changed' = _send_request(HTTP_GET, resp, config_changed)
            /\ IF ~resp.success
               THEN Return(FtdServerError(resp))
               ELSE LET existing_object == resp.response
                        decision == EditDecision(existing_object, user.data)
                    IN IF decision = "missing"
                       THEN Return(FtdConfigurationError("Referenced object does not exist", None))
                       ELSE IF decision = "same"
                       THEN Return(Success(existing_object))
                       ELSE pc' = "edit_object_write" /\ UNCHANGED outcome
    /\ UNCHANGED <<check_mode, operation_spec_cache, models_operations_specs_cache,
                   call, validations, server_items, it, ncalls>>

\* edit_object, the write (lines 203-204)
edit_object_write ==
    /\ pc = "edit_object_write"
    /\ LET user == _get_user_params(call.params)
           rp == _get_request_params_from_spec(operation_spec_cache[call.op_name])
       IN \E resp \in {SuccessEnvelope(b) : b \in Objects} \cup FailureEnvelopes :
            /\ requests' = Append(requests, Request(rp.url, rp.method, user.data,
                                                    user.path_params, user.query_params, resp))
            /\ config_changed' = _send_request(rp.method, resp, config_changed)
            /\ IF resp.success
               THEN Return(Success(resp.response))
               ELSE Return(FtdServerError(resp))
    /\ UNCHANGED <<check_mode, operation_spec_cache, models_operations_specs_cache,
                   call, validations, server_items, it, ncalls>>

\* send_general_request from its request on (lines 210-214)
send_general_request ==
    /\ pc = "send_general_request"
    /\ LET user == _get_user_params(call.params)
           rp == _get_request_params_from_spec(operation_spec_cache[call.op_name])
       IN \E resp \in {SuccessEnvelope(b) : b \in ObjectBodies} \cup FailureEnvelopes :
            /\ requests' = Append(requests, Request(rp.url, rp.method, user.data,
                                                    user.path_params, user.query_params, resp))
            /\ config_changed' = _send_request(rp.method, resp, config_changed)
            /\ IF resp.success
               THEN Return(Success(resp.response))
               ELSE Return(FtdServerError(resp))
    /\ UNCHANGED <<check_mode, operation_spec_cache, models_operations_specs_cache,
                   call, validations, server_items, it, ncalls>>

\* crud_operation is left: its params, its frames and the envelopes it saw are dropped
\* (the caches and config_changed outlive the call)
call_returns ==
    /\ pc = "done"
    /\ pc' = "idle"
    /\ call' = NoCall
    /\ validations' = <<>>
    /\ requests' = <<>>
    /\ server_items' = <<>>
    /\ it' = NoFrame
    /\ outcome' = [kind |-> "none"]
    /\ UNCHANGED <<check_mode, config_changed, operation_spec_cache,
                   models_operations_specs_cache, ncalls>>

Next ==
    \/ \E op_name \in OpNames, params \in ParamsChoices : crud_operation(op_name, params)
    \/ add_object
    \/ edit_object
    \/ edit_object_write
    \/ delete_object
    \/ send_general_request
    \/ iterate_over_pageable_resource
    \/ call_returns

Spec == Init /\ [][Next]_vars

(* ---------------- the generator on its own: a long list --------------- *)
\* the list endpoint holds at most MaxPageItems objects
MaxPageItems == 25

PageQueryChoices ==
    {Absent, [limit |-> IntVal(3)], [offset |-> IntVal(7)],
     [limit |-> StrVal(<<1, 0>>), offset |-> StrVal(<<5>>)],
     [limit |-> IntVal(0)], [limit |-> IntVal(-1), offset |-> IntVal(2)],
     [limit |-> IntVal(3), offset |-> IntVal(-2)]}

\* the state crud_operation(getObjList, {filters: {a: 1}, query_params: q}) leaves a new
\* resource in when the server holds n objects: the generator is created, nothing fetched
PageInit ==
    \E n \in 0..MaxPageItems, q \in PageQueryChoices :
        LET given == MakeParams(Absent, q, Absent, [a |-> 1])
            cache == get_operation_spec(EmptyDict, getObjList)
        IN /\ check_mode = FALSE
           /\ config_changed = FALSE
           /\ operation_spec_cache = cache
           /\ models_operations_specs_cache = EmptyDict
           /\ pc = "iterate"
           /\ call = [op_name |-> getObjList, given |-> given,
                      params |-> ParamsAfterFilters(given),
                      handler |-> Handler(cache, getObjList, given),
                      changed_before |-> FALSE]
           /\ validations = <<Validation(getObjList, EmptyDict)>>
           /\ requests = <<>>
           /\ server_items = [i \in 1..n |-> [name |-> i, a |-> 1]]
           /\ it = GetObjectsByFilterFrame(getObjList, given, FALSE, cache[getObjList],
                                           "crud_operation", None)
           /\ outcome = [kind |-> "none"]
           /\ ncalls = 1

PageNext == iterate_over_pageable_resource

PageSpec == PageInit /\ [][PageNext]_vars

\* the consumer blocks on every fetch and the transport answers it: a pending fetch of
\* the generator is made
PageLiveSpec == PageSpec /\ WF_vars(PageNext)

(* ------------- the two caches with any collaborator answers ----------- *)
\* the names asked for, the models asked for, and what the collaborator may answer: for a
\* name a spec or None, for a model any dict of specs by operation name
CacheNames == {getObjList, addObj}
CacheModels == {"Obj", "Other"}
SpecAnswers == {OperationSpec(HTTP_GET, "/obj", "Obj"), OperationSpec(POST, "/obj", "Obj")}
ModelAnswers == UNION {[D -> SpecAnswers] : D \in SUBSET CacheNames}

\* resource.get_operation_spec(operation_name), called on the resource directly
CacheGetOperationSpec ==
    /\ \E operation_name \in CacheNames, answer \in SpecAnswers \cup {None} :
          operation_spec_cache' =
              get_operation_spec_answered(operation_spec_cache, operation_name, answer)
    /\ UNCHANGED <<check_mode, config_changed, models_operations_specs_cache, pc, call,
                   validations, requests, server_items, it, outcome, ncalls>>

\* resource.get_operation_specs_by_model_name(model_name), called on the resource directly
CacheGetOperationSpecsByModelName ==
    /\ \E model_name \in CacheModels, model_op_specs \in ModelAnswers :
          LET caches == get_operation_specs_by_model_name_answered(
                            operation_spec_cache, models_operations_specs_cache,
                            model_name, model_op_specs)
          IN /\ operation_spec_cache' = caches[1]
             /\ models_operations_specs_cache' = caches[2]
    /\ UNCHANGED <<check_mode, config_changed, pc, call, validations, requests,
                   server_items, it, outcome, ncalls>>

CacheNext == CacheGetOperationSpec \/ CacheGetOperationSpecsByModelName

CacheSpec == Init /\ [][CacheNext]_vars

(* ------------------- validate_params on its own ----------------------- *)
\* the params of the call: what the validator does with them is the validator's answer
ValidateParamsChoices ==
    {MakeParams(d, Absent, p, Absent) : d \in {Absent, [name |-> 1, a |-> 1]}, p \in PathChoices}

\* resource.validate_params(operation_name, params) called on the resource directly, the
\* validator answering each category in any of its three ways; the run is kept with the
\* validator calls it made, and it returns None or raises ValidationError(report)
validate_params_called ==
    /\ pc = "idle"
    /\ \E operation_name \in DOMAIN ConnOperationSpecs, params \in ValidateParamsChoices,
          answers \in AnswerSets :
          LET cache == get_operation_spec(operation_spec_cache, operation_name)
              op_spec == cache[operation_name]
              report == validate_params(op_spec, answers)
          IN /\ operation_spec_cache' = cache
             /\ call' = [op_name |-> operation_name, given |-> params, params |-> params,
                         handler |-> "none", changed_before |-> config_changed]
             /\ validations' = <<[operation_name |-> operation_name,
                                  calls |-> ValidatorCalls(op_spec, answers),
                                  report |-> report]>>
             /\ Return(IF Truthy(report) THEN ValidationError(report) ELSE Success(None))
    /\ UNCHANGED <<check_mode, config_changed, models_operations_specs_cache, requests,
                   server_items, it, ncalls>>

ValidateNext == validate_params_called \/ call_returns

ValidateSpec == Init /\ [][ValidateNext]_vars

(* =============================== claims =============================== *)
Done == pc = "done"
Dispatched == call.handler # "none"

\* the first validate_params of the call, the one of the dispatched handler
EntryReport == validations[1].report

\* the create request of add_object was refused with 422 and the duplicate-name text
DupRejected ==
    /\ call.handler = "add_object"
    /\ Len(requests) >= 1
    /\ ~requests[1].response.success
    /\ requests[1].response.status_code = UNPROCESSABLE_ENTITY_STATUS
    /\ \E i \in DOMAIN requests[1].response.response.message :
          requests[1].response.response.message[i] = DUPLICATE_NAME_ERROR_MESSAGE

\* the operation changes the server: add, edit, delete, or general with another method than GET
IsMutating ==
    \/ call.handler \in {"add_object", "edit_object", "delete_object"}
    \/ /\ call.handler = "send_general_request"
       /\ ConnOperationSpecs[call.op_name].method # HTTP_GET

\* the operation only reads: find by filter, or general with the method GET
IsReadOnly ==
    \/ call.handler = "get_objects_by_filter"
    \/ /\ call.handler = "send_general_request"
       /\ ConnOperationSpecs[call.op_name].method = HTTP_GET

\* C1 (as amended): for every handler, when a parameter category fails the validation the
\* handler starts with, the call ends with ValidationError carrying that report and no
\* request was sent; the only ValidationError that follows a request is the one of the
\* lookup add_object makes after a refused create, and then exactly that one request was sent.
C1_EntryValidationErrorSendsNothing ==
    (Done /\ Dispatched) =>
        /\ Truthy(EntryReport) =>
              outcome = ValidationError(EntryReport) /\ requests = <<>>
        /\ (outcome.kind = "ValidationError" /\ requests # <<>>) =>
              /\ DupRejected
              /\ Len(requests) = 1
              /\ Len(validations) = 2
              /\ outcome = ValidationError(validations[2].report)

C1_Witness ==
    Done /\ Dispatched /\ Truthy(EntryReport) /\ call.handler = "edit_object"
         /\ outcome.kind = "ValidationError" /\ ~check_mode

\* C1 (as stated): whenever a validated category fails, the call ends with ValidationError
\* and send_request was not invoked during the call.
C1_Original ==
    (Done /\ \E i \in DOMAIN validations : Truthy(validations[i].report)) =>
        outcome.kind = "ValidationError" /\ requests = <<>>

\* C2: in check mode a mutating operation with valid parameters ends with CheckModeException
\* and no request sent; an operation with invalid parameters ends with ValidationError, so
\* validation runs before the gate.
C2_CheckModeAfterValidation ==
    (check_mode /\ Done /\ Dispatched) =>
        /\ (IsMutating /\ ~Truthy(EntryReport)) =>
              outcome = CheckModeException /\ requests = <<>>
        /\ Truthy(EntryReport) => outcome.kind = "ValidationError"

C2_Witness ==
    check_mode /\ Done /\ call.handler = "add_object" /\ ~Truthy(EntryReport)
               /\ outcome = CheckModeException

\* C3 (as amended): the gate is applied to the read-only operations too: in check mode a
\* find-by-filter call and a general GET with valid parameters end with CheckModeException
\* and send no request.
C3_ReadOnlyIsGated ==
    (check_mode /\ Done /\ Dispatched /\ IsReadOnly /\ ~Truthy(EntryReport)) =>
        outcome = CheckModeException /\ requests = <<>>

C3_Witness ==
    check_mode /\ Done /\ call.handler = "get_objects_by_filter" /\ ~Truthy(EntryReport)
               /\ outcome = CheckModeException

\* C3 (as stated): in check mode a find-by-filter call and a general GET with valid
\* parameters do not end with CheckModeException and send their read request.
C3_Original ==
    (check_mode /\ Done /\ Dispatched /\ IsReadOnly /\ ~Truthy(EntryReport)) =>
        outcome.kind # "CheckModeException" /\ requests # <<>>

\* the error of the refused create request, as add_object caught it
OriginalError ==
    [kind |-> "FtdServerError", response |-> requests[1].response.response,
     code |-> requests[1].response.status_code]

LastRequest == requests[Len(requests)]

\* the filters of the lookup: the caller's when given, the submitted name otherwise
ExpectedFilters ==
    IF "filters" \in DOMAIN call.given THEN call.given["filters"]
    ELSE [name |-> call.given["data"]["name"]]

Matches(filters, obj) == \A k \in DOMAIN filters : k \in DOMAIN obj /\ obj[k] = filters[k]

\* the lookup after the refused create came back with a page holding a matching object
LookupFound ==
    /\ DupRejected
    /\ Len(requests) >= 2
    /\ LastRequest.response.success
    /\ \E i \in DOMAIN LastRequest.response.response.items :
          Matches(ExpectedFilters, LastRequest.response.response.items[i])

\* the lookup fetched pages up to the empty one and no object matched
LookupFoundNothing ==
    /\ DupRejected
    /\ Len(requests) >= 2
    /\ LastRequest.response.success
    /\ LastRequest.response.response.items = <<>>

\* the first matching object of that page
FoundObject ==
    LET items == LastRequest.response.response.items
        i == CHOOSE i \in DOMAIN items :
                /\ Matches(ExpectedFilters, items[i])
                /\ \A j \in 1..(i - 1) : ~Matches(ExpectedFilters, items[j])
    IN items[i]

\* the model of the called operation has no get...List operation with the method GET
NoFindAll ==
    LET ops == ConnGetOperationSpecsByModelName(ConnOperationSpecs[call.op_name].modelName)
    IN ~\E n \in DOMAIN ops : n[1] = "get" /\ n[Len(n)] = "List" /\ ops[n].method = HTTP_GET

\* C4: add idempotency: the create is refused with 422 duplicate name, the lookup (by the
\* caller's filters, else by the submitted name) finds an object equal to the submitted
\* data: the add call returns that object without error.
C4_AddIdempotent ==
    (Done /\ LookupFound /\ equal_objects(FoundObject, call.given["data"])) =>
        /\ outcome = Success(FoundObject)
        /\ it.filters = ExpectedFilters
        /\ \A i \in 2..Len(requests) :
              /\ requests[i].http_method = HTTP_GET
              /\ requests[i].url_path = ConnOperationSpecs[getObjList].url

C4_Witness ==
    Done /\ LookupFound /\ equal_objects(FoundObject, call.given["data"])
         /\ "filters" \notin DOMAIN call.given /\ outcome.kind = "Success"

\* C5: add conflict: the lookup after the refused create finds an object that differs from
\* the submitted data: the add call fails with FtdConfigurationError carrying that object.
C5_AddConflict ==
    (Done /\ LookupFound /\ ~equal_objects(FoundObject, call.given["data"])) =>
        /\ outcome.kind = "FtdConfigurationError"
        /\ outcome.obj = FoundObject

C5_Witness ==
    Done /\ LookupFound /\ ~equal_objects(FoundObject, call.given["data"])
         /\ outcome.kind = "FtdConfigurationError"
         /\ FoundObject["name"] = call.given["data"]["name"]

\* C6: add rethrow: after a create refused with 422 duplicate name, when the model has no
\* find-all operation or the lookup finds no object, the call fails with the original
\* server error; any other server error of the create leaves unchanged, without a lookup.
C6_AddRethrow ==
    (Done /\ call.handler = "add_object" /\ Len(requests) >= 1 /\ ~requests[1].response.success) =>
        /\ (DupRejected /\ NoFindAll) => (outcome = OriginalError /\ Len(requests) = 1)
        /\ LookupFoundNothing => outcome = OriginalError
        /\ ~DupRejected => (outcome = OriginalError /\ Len(requests) = 1)

C6_Witness ==
    Done /\ LookupFoundNothing /\ server_items # <<>> /\ outcome = OriginalError

\* C7: edit idempotency: the probe is a GET at the same path parameters; when it returns
\* an object equal to the submitted data no write is sent and that object is returned;
\* when it returns another (non-empty) object exactly one write follows the probe and
\* the call ends as the write does.
C7_EditIdempotent ==
    (call.handler = "edit_object" /\ Len(requests) >= 1) =>
        LET probe == requests[1]
            fetched == probe.response.response
            data == DictGet(call.given, "data", EmptyDict)
        IN /\ ~check_mode /\ ~Truthy(EntryReport)
           /\ probe.http_method = HTTP_GET
           /\ probe.url_path = ConnOperationSpecs[call.op_name].url
           /\ probe.path_params = DictGet(call.given, "path_params", EmptyDict)
           /\ (probe.response.success /\ Truthy(fetched)) =>
                 IF equal_objects(fetched, data)
                 THEN Done /\ Len(requests) = 1 /\ outcome = Success(fetched)
                 ELSE /\ Len(requests) <= 2
                      /\ ~Done => (pc = "edit_object_write" /\ Len(requests) = 1)
                      /\ Done =>
                           /\ Len(requests) = 2
                           /\ requests[2].http_method = PUT
                           /\ requests[2].body_params = data
                           /\ outcome = IF requests[2].response.success
                                        THEN Success(requests[2].response.response)
                                        ELSE FtdServerError(requests[2].response)

C7_Witness ==
    Done /\ call.handler = "edit_object" /\ Len(requests) = 1 /\ requests[1].response.success
         /\ outcome.kind = "Success" /\ outcome.value = call.given["data"]

\* C8: edit of a missing target: the probe succeeds with an empty result: the call fails
\* with FtdConfigurationError 'Referenced object does not exist' and no write is sent.
C8_EditMissingTarget ==
    (Done /\ call.handler = "edit_object" /\ Len(requests) >= 1
          /\ requests[1].response.success /\ ~Truthy(requests[1].response.response)) =>
        /\ outcome.kind = "FtdConfigurationError"
        /\ outcome.msg = "Referenced object does not exist"
        /\ Len(requests) = 1

C8_Witness ==
    Done /\ call.handler = "edit_object" /\ Len(requests) = 1
         /\ requests[1].response.success /\ ~Truthy(requests[1].response.response)
         /\ "data" \in DOMAIN call.given

\* C9: delete tolerance: a delete refused with 422 and the invalid-UUID text returns
\* {status: 'Referenced object does not exist'}; any other failure of the delete leaves
\* as the server error it is.
C9_DeleteTolerance ==
    (Done /\ call.handler = "delete_object" /\ Len(requests) >= 1 /\ ~requests[1].response.success) =>
        /\ Len(requests) = 1
        /\ IF /\ requests[1].response.status_code = UNPROCESSABLE_ENTITY_STATUS
              /\ \E i \in DOMAIN requests[1].response.response.message :
                    requests[1].response.response.message[i] = INVALID_UUID_ERROR_MESSAGE
           THEN outcome = Success([status |-> "Referenced object does not exist"])
           ELSE outcome = OriginalError

C9_Witness ==
    Done /\ call.handler = "delete_object" /\ Len(requests) = 1 /\ ~requests[1].response.success
         /\ outcome = Success([status |-> "Referenced object does not exist"])

\* the fetches of the generator among the requests of the call
Fetches ==
    IF it.active /\ it.caller = "_check_if_the_same_object" THEN Tail(requests) ELSE requests

\* the offset and the page size the caller asked for, the defaults otherwise
GivenQuery == DictGet(call.given, "query_params", EmptyDict)
PageStart == IF "offset" \in DOMAIN GivenQuery THEN int(GivenQuery["offset"]) ELSE 0
PageLimit == IF "limit" \in DOMAIN GivenQuery THEN int(GivenQuery["limit"]) ELSE 10

\* the items the iterator pages through: the server's from the first offset on
PagedItems ==
    SubSeq(server_items, (IF PageStart < 0 THEN 0 ELSE PageStart) + 1, Len(server_items))

\* the consumer pulled the generator to its end: the last fetch returned no item
FullyConsumed ==
    /\ Done /\ it.active /\ Fetches # <<>>
    /\ Fetches[Len(Fetches)].response.success
    /\ Fetches[Len(Fetches)].response.response.items = <<>>

\* every fetch carries limit and offset, the k-th at offset start + (k-1)*L, and no fetch
\* follows an empty page
FetchProtocol ==
    /\ \A k \in DOMAIN Fetches :
          /\ {"limit", "offset"} \subseteq DOMAIN Fetches[k].query_params
          /\ int(Fetches[k].query_params["limit"]) = PageLimit
          /\ int(Fetches[k].query_params["offset"]) = PageStart + (k - 1) * PageLimit
    /\ \A k \in 1..(Len(Fetches) - 1) :
          /\ Fetches[k].response.success
          /\ Fetches[k].response.response.items # <<>>
    /\ (Done /\ ~it.get_one_item /\ outcome.kind = "Success") => FullyConsumed

\* C10 (as amended): with page size L and first offset start (10 and 0 unless the query
\* parameters give others), the fetches are at start, start+L, ..., each with limit and
\* offset, the iteration ends at the first empty page, and a fully consumed iterator
\* yields, in server order, exactly the items at the positions from start on when L is
\* 1 or more (all N items when start is 0 or less), and nothing when L is 0 or less.
C10_PaginationProtocol ==
    it.active =>
        /\ FetchProtocol
        /\ FullyConsumed =>
              it.yielded = IF PageLimit >= 1 THEN PagedItems ELSE <<>>

\* 25 items, the defaults: 4 fetches at 0, 10, 20, 30 and all 25 items
C10_Witness ==
    /\ FullyConsumed
    /\ Len(server_items) = 25
    /\ "query_params" \notin DOMAIN call.given
    /\ Len(Fetches) = 4
    /\ \A k \in 1..4 : Fetches[k].query_params["offset"] = IntVal(10 * (k - 1))
    /\ it.yielded = server_items

\* C10 (as stated): the same, with a fully consumed iterator yielding exactly the N items
\* of the server whatever the offset supplied.
C10_Original ==
    it.active =>
        /\ FetchProtocol
        /\ FullyConsumed => it.yielded = server_items

\* the last fetch of the generator came back with a success
LastFetchSucceeded == Fetches # <<>> /\ Fetches[Len(Fetches)].response.success

\* what the single-item lookup handed to _check_if_the_same_object, read off the way the
\* add call ended: the object returned or reported as conflicting, None with the rethrow
LookupResult ==
    IF outcome.kind = "Success" THEN outcome.value
    ELSE IF outcome.kind = "FtdConfigurationError" THEN outcome.obj
    ELSE None

\* the first of the items that matches the filters, None when no item does
FirstMatching(filters, items) ==
    LET sel == SelectSeq(items, LAMBDA o : Matches(filters, o))
    IN IF sel = <<>> THEN None ELSE sel[1]

MutationSucceeded ==
    /\ Len(requests') = Len(requests) + 1
    /\ requests'[Len(requests')].response.success
    /\ requests'[Len(requests')].http_method # HTTP_GET

\* C12: config_changed is false at construction and every step leaves it as it was or,
\* exactly when the step's request has another method than GET and returned a success,
\* sets it: so it is true iff some such request succeeded, it is never reset, and a failed
\* request or a successful GET does not change it.
C12_ConfigChangedExact ==
    /\ ~config_changed
    /\ [][config_changed' = (config_changed \/ MutationSucceeded)]_vars

\* the flag an earlier call set is still set after a later call's request failed
C12_Witness ==
    /\ config_changed /\ ncalls = 2 /\ Done
    /\ requests # <<>>
    /\ \A i \in DOMAIN requests : ~requests[i].response.success \/ requests[i].http_method = HTTP_GET
    /\ ~LastRequest.response.success

\* every operation name of the model-level cache is a key of the name-level cache
ModelNamesCached ==
    \A m \in DOMAIN models_operations_specs_cache :
        DOMAIN models_operations_specs_cache[m] \subseteq DOMAIN operation_spec_cache

\* a step keeps every entry the name-level cache holds
EntriesKept ==
    \A n \in DOMAIN operation_spec_cache :
        n \in DOMAIN operation_spec_cache' /\ operation_spec_cache'[n] = operation_spec_cache[n]

\* a model fetched by this step puts its specs under the names that had no entry
NewNamesBackfilled ==
    \A m \in (DOMAIN models_operations_specs_cache') \ (DOMAIN models_operations_specs_cache) :
        \A n \in (DOMAIN models_operations_specs_cache'[m]) \ (DOMAIN operation_spec_cache) :
            operation_spec_cache'[n] = models_operations_specs_cache'[m][n]

\* C13 (as amended): whatever the collaborator answers, every operation name of the
\* model-level cache has an entry in the name-level cache; a batch fetch stores its spec
\* under each name that had no entry and never overwrites an entry already present, so
\* the entry of a name cached before (a spec or None) may differ from the model-level spec.
C13_TwoLevelCache ==
    /\ []ModelNamesCached
    /\ [][EntriesKept /\ NewNamesBackfilled]_vars

\* a name was cached as unknown, then its model was fetched with a spec under that name
C13_Witness ==
    /\ "Obj" \in DOMAIN models_operations_specs_cache
    /\ getObjList \in DOMAIN models_operations_specs_cache["Obj"]
    /\ addObj \in DOMAIN models_operations_specs_cache["Obj"]
    /\ operation_spec_cache[getObjList] = None
    /\ operation_spec_cache[addObj] = models_operations_specs_cache["Obj"][addObj]

\* C13 (as stated): whatever the collaborator answers, every spec of the model-level cache
\* is the entry of the name-level cache under its operation name.
C13_Original ==
    \A m \in DOMAIN models_operations_specs_cache :
        \A n \in DOMAIN models_operations_specs_cache[m] :
            /\ n \in DOMAIN operation_spec_cache
            /\ operation_spec_cache[n] = models_operations_specs_cache[m][n]

\* the requests of the call with another method than GET
NonGetRequests == {i \in DOMAIN requests : requests[i].http_method # HTTP_GET}

\* C14 (as amended): a call sends at most one request with another method than GET.
\* Delete and general calls send at most one request, edit at most two (the GET probe,
\* then the PUT). Add sends its create and, only after a duplicate-name refusal, the page
\* fetches of the lookup; find-by-filter sends its page fetches. Page fetches are GETs,
\* one per page up to the empty page, so their number grows with the list.
C14_RequestsPerCall ==
    /\ Cardinality(NonGetRequests) <= 1
    /\ call.handler \in {"delete_object", "send_general_request"} => Len(requests) <= 1
    /\ call.handler = "edit_object" =>
          /\ Len(requests) <= 2
          /\ Len(requests) >= 1 => requests[1].http_method = HTTP_GET
          /\ Len(requests) = 2 => requests[2].http_method = PUT
    /\ (call.handler = "add_object" /\ Len(requests) >= 1) =>
          /\ requests[1].http_method = POST
          /\ Len(requests) >= 2 => (DupRejected /\ it.active /\ it.get_one_item)
    /\ it.active =>
          /\ \A k \in DOMAIN Fetches : Fetches[k].http_method = HTTP_GET
          /\ Len(Fetches) <= Len(PagedItems) + 1

\* a find-by-filter call over two objects with the page size 1: three fetches
C14_Witness ==
    /\ Done /\ call.handler = "get_objects_by_filter" /\ outcome.kind = "Success"
    /\ Len(requests) = 3

\* C14 (as stated): a call sends at most two requests, at most one of them a read and at
\* most one of them mutating.
C14_Original ==
    /\ Len(requests) <= 2
    /\ Cardinality(NonGetRequests) <= 1
    /\ Cardinality(DOMAIN requests \ NonGetRequests) <= 1

\* the collaborator has no spec for the operation called
UnknownOperation == call.op_name # <<>> /\ call.op_name \notin DOMAIN ConnOperationSpecs

\* C15: a call of an operation the collaborator has no spec for, whatever its parameters
\* and the check mode, ends with FtdInvalidOperationNameError carrying the name, with no
\* validator run and no request sent; the absence is cached and a repeated call ends the same.
C15_UnknownOperation ==
    /\ (pc # "idle" /\ UnknownOperation) =>
          /\ Done
          /\ outcome.kind = "FtdInvalidOperationNameError"
          /\ outcome.operation_name = call.op_name
          /\ validations = <<>>
          /\ requests = <<>>
          /\ operation_spec_cache[call.op_name] = None
    /\ (Done /\ outcome.kind = "FtdInvalidOperationNameError") => UnknownOperation

\* the second call of the unknown operation, in check mode and with data: the first call
\* cached the absence (no other name is cached)
C15_Witness ==
    /\ Done /\ UnknownOperation /\ ncalls = 2 /\ check_mode
    /\ DOMAIN operation_spec_cache = {call.op_name}
    /\ "data" \in DOMAIN call.given
    /\ outcome.kind = "FtdInvalidOperationNameError"

\* the categories validate_params has to validate for the operation
CategoriesOf(operation_name) ==
    IF ConnOperationSpecs[operation_name].method \in {POST, PUT}
    THEN <<"query_params", "path_params", "data">>
    ELSE <<"query_params", "path_params">>

\* the fixed label of a category in the report
LabelOf(category) ==
    CASE category = "query_params" -> "Invalid query_params provided"
      [] category = "path_params" -> "Invalid path_params provided"
      [] category = "data" -> "Invalid data provided"

\* C16: every run of validate_params asks the validator about query_params and
\* path_params, and about data exactly when the method is POST or PUT, whatever the
\* validator returned or raised for the categories before; the report holds an entry
\* under the label of each category that failed and nothing else, and ValidationError
\* with that report is raised exactly when it holds an entry.
C16_ValidationAggregation ==
    (Done /\ validations # <<>>) =>
        LET v == validations[1]
            cats == CategoriesOf(v.operation_name)
            failed == {k \in DOMAIN v.calls : v.calls[k].answer # "valid"}
        IN /\ Len(v.calls) = Len(cats)
           /\ \A k \in DOMAIN cats : v.calls[k].field_name = cats[k]
           /\ DOMAIN v.report = {LabelOf(v.calls[k].field_name) : k \in failed}
           /\ IF failed = {} THEN outcome.kind = "Success"
              ELSE outcome.kind = "ValidationError" /\ outcome.report = v.report

\* a POST operation: query_params raised, path_params passed, data was returned invalid,
\* and the report holds the two entries
C16_Witness ==
    /\ Done /\ validations # <<>>
    /\ Len(validations[1].calls) = 3
    /\ validations[1].calls[1].answer = "raised"
    /\ validations[1].calls[2].answer = "valid"
    /\ validations[1].calls[3].answer = "invalid"
    /\ DOMAIN validations[1].report = {"Invalid query_params provided", "Invalid data provided"}
    /\ outcome.kind = "ValidationError"

\* the offset of the k-th fetch of the generator
FetchOffset(k) == int(Fetches[k].query_params["offset"])

\* the page the k-th fetch returned holds an item that matches the lookup's filters
PageHasMatch(k) ==
    /\ Fetches[k].response.success
    /\ \E i \in DOMAIN Fetches[k].response.response.items :
          Matches(ExpectedFilters, Fetches[k].response.response.items[i])

\* the position among the paged items of the first that matches, 0 when none does
FirstMatchPosition ==
    IF \E p \in DOMAIN PagedItems : Matches(ExpectedFilters, PagedItems[p])
    THEN CHOOSE p \in DOMAIN PagedItems :
            /\ Matches(ExpectedFilters, PagedItems[p])
            /\ \A q \in 1..(p - 1) : ~Matches(ExpectedFilters, PagedItems[q])
    ELSE 0

\* C17: in the single-item mode the pages are fetched at increasing offsets, every page
\* before the last one fetched came back without a match, and a lookup that ended after
\* a successful fetch stopped at the page of the first matching item (the ceil(p / L)-th
\* page for the item at position p), or, when no item matches, at the empty page after
\* all items had been paged.
C17_LazySingleItemLookup ==
    (it.active /\ it.get_one_item) =>
        /\ \A k \in 1..(Len(Fetches) - 1) :
              /\ FetchOffset(k) < FetchOffset(k + 1)
              /\ Fetches[k].response.success
              /\ ~PageHasMatch(k)
        /\ (Done /\ LastFetchSucceeded) =>
              IF FirstMatchPosition # 0
              THEN /\ PageHasMatch(Len(Fetches))
                   /\ Len(Fetches) = (FirstMatchPosition + PageLimit - 1) \div PageLimit
              ELSE /\ Fetches[Len(Fetches)].response.response.items = <<>>
                   /\ it.yielded = PagedItems

\* page size 1, the second object matches: two fetches, the empty page is not asked for
C17_Witness ==
    /\ Done /\ it.active /\ it.get_one_item /\ LastFetchSucceeded
    /\ PageLimit = 1 /\ Len(PagedItems) = 2
    /\ FirstMatchPosition = 2
    /\ Len(Fetches) = 2

\* C18: on a resource constructed with check mode on, whatever calls are made, no request
\* is ever sent (no call gets past its first lines) and config_changed stays false.
C18_CheckModeSendsNothing ==
    check_mode =>
        /\ requests = <<>>
        /\ ~config_changed
        /\ pc \in {"idle", "done"}
        /\ ~it.active

\* check mode, the second call, a general request with valid parameters stopped at the gate
C18_Witness ==
    /\ check_mode /\ ncalls = 2 /\ Done
    /\ call.handler = "send_general_request"
    /\ outcome = CheckModeException
    /\ requests = <<>> /\ ~config_changed

\* the call ended reconciled: an edit returning the fetched object without a write, a
\* delete returning the synthetic result after its refusal, an add returning the object
\* found after the duplicate-name refusal
ReconciledOutcome ==
    /\ Done /\ outcome.kind = "Success"
    /\ \/ call.handler = "edit_object" /\ Len(requests) = 1
       \/ call.handler = "delete_object" /\ ~requests[1].response.success
       \/ call.handler = "add_object" /\ DupRejected

\* C19: a reconciled outcome of edit, delete or add, and a find-by-filter call at every
\* point and however it ends, leave config_changed at the value it had before the call.
C19_ReconciledLeavesFlag ==
    (ReconciledOutcome \/ call.handler = "get_objects_by_filter") =>
        config_changed = call.changed_before

\* an add whose create was refused as a duplicate returned the object found, the flag
\* is still false
C19_Witness ==
    /\ ReconciledOutcome /\ call.handler = "add_object"
    /\ Len(requests) >= 2
    /\ ~config_changed /\ ~call.changed_before

\* the fetches of the generator are at strictly increasing offsets, the one it is about
\* to make included; a page asked for with a limit of 0 or less is the first and the
\* last; and never more fetches are made than the server holds items, plus one
FetchesAdvance ==
    it.active =>
        /\ \A k \in 1..(Len(Fetches) - 1) : FetchOffset(k) < FetchOffset(k + 1)
        /\ (pc = "iterate" /\ Fetches # <<>>) =>
              FetchOffset(Len(Fetches)) < int(it.query_params["offset"])
        /\ PageLimit <= 0 => Len(Fetches) <= 1
        /\ Len(Fetches) <= Len(server_items) + 1

\* C20: over a finite list served by position, for every limit and offset supplied (a
\* limit of 0 or less and an offset below 0 included) the offsets of successive fetches
\* strictly increase, the number of fetches is bounded by the number of items, and the
\* consumer of the whole iterator comes to its end.
C20_IteratorTerminates == []FetchesAdvance /\ <>Done

\* a limit of 0 or less: the first page is empty and the iteration is over after one fetch
C20_Witness ==
    /\ FullyConsumed /\ PageLimit <= 0 /\ Len(server_items) >= 1
    /\ Len(Fetches) = 1 /\ it.yielded = <<>>

====
